---------------------------- MODULE Spec2Model ----------------------------
(***************************************************************************)
(* A model of bitsock: the Packet codec (src/src/lib.rs), the connection   *)
(* primitives Client (src/src/client.rs) and LogicalClient                 *)
(* (src/src/server.rs), and the listener loop Server::run                  *)
(* (src/src/server.rs).                                                    *)
(*                                                                         *)
(* Bytes are the integers 0..255.  A scalar of more than 16 bits does not  *)
(* fit the model checker's integers, so a scalar value is kept as the      *)
(* sequence of its 16-bit half-words, most significant first (a one-byte   *)
(* scalar is a single 8-bit digit); the leading digit of a signed scalar   *)
(* is signed.  Floats are kept as their IEEE-754 bit pattern.              *)
(***************************************************************************)
EXTENDS Integers, Sequences, FiniteSets, TLC

VARIABLES
    \* codec harness: a packet, its encoding, the result of decoding it
    pkt, wire, decoded, phase, cut,
    \* one connection: its state, which sides have shut their stream down, the
    \* unread bytes of each direction, and the history of sends and reads
    conn, cShut, sShut, c2s, s2c, sentC, sentS, recvC, recvS,
    \* the server: its configuration, the environment of its listening socket,
    \* the position of run() and of the thread it spawns, what was routed to
    \* the error and log handlers, and each connection's handler
    errorHandler, logHandler, portFree, listener, runPc, acceptPc, backlog,
    errors, logs, acceptErrs, connected, current, invoked, errsBefore, req, resp,
    \* the ServerBuilder, the setter calls made on it, whether build() has
    \* consumed it, and the address, port and client handler of the Server
    builder, calls, built, address, port, clientHandler

codecVars == <<pkt, wire, decoded, phase, cut>>

connVars == <<conn, cShut, sShut, c2s, s2c, sentC, sentS, recvC, recvS>>

srvVars ==
    <<errorHandler, logHandler, portFree, listener, runPc, acceptPc, backlog,
      errors, logs, acceptErrs, connected, current, invoked, errsBefore, req,
      resp>>

bldVars == <<builder, calls, built, address, port, clientHandler>>

---------------------------------------------------------------------------
(* Bounds of the model *)

MaxDataLen == 2
MaxStrChars == 2
MaxSends == 2
MaxReads == 2
MaxConns == 2
MaxAcceptErrs == 2
MaxReq == 1
MaxCalls == 3

---------------------------------------------------------------------------
(* Packet: the variants, their tag bytes and their widths *)

ScalarKinds == {"I8", "I16", "I32", "I64", "F32", "F64", "U8", "U16", "U32", "U64"}

SignedKinds == {"I8", "I16", "I32", "I64"}

VarKinds == {"Bytes", "String", "Identified"}

\* the tag byte each arm of encode inserts at result[0]
Tag(kind) ==
    CASE kind = "Bytes" -> 1
      [] kind = "String" -> 2
      [] kind = "I8" -> 3
      [] kind = "I16" -> 4
      [] kind = "I32" -> 5
      [] kind = "I64" -> 6
      [] kind = "F32" -> 7
      [] kind = "F64" -> 8
      [] kind = "U8" -> 9
      [] kind = "U16" -> 10
      [] kind = "U32" -> 11
      [] kind = "U64" -> 12
      [] kind = "Identified" -> 13

\* std::mem::size_of::<T>() of the scalar carried by each variant
SizeOf(kind) ==
    CASE kind \in {"I8", "U8"} -> 1
      [] kind \in {"I16", "U16"} -> 2
      [] kind \in {"I32", "U32", "F32"} -> 4
      [] kind \in {"I64", "U64", "F64"} -> 8

\* std::mem::size_of::<String>() on a 64-bit target (pointer, capacity, length)
SizeOfString == 24

\* std::mem::size_of::<u8>()
SizeOfU8 == 1

\* std::mem::size_of::<u32>()
SizeOfU32 == 4

Packet(kind, num, data) == [kind |-> kind, num |-> num, data |-> data]

Invalid == Packet("Invalid", <<>>, <<>>)

---------------------------------------------------------------------------
(* Little-endian fixed-width integers: byteorder's write_xx and read_xx *)

\* bytes per digit of the value representation
DigitBytes(w) == IF w = 1 THEN 1 ELSE 2

DigitBase(w) == IF w = 1 THEN 256 ELSE 65536

NumDigits(w) == w \div DigitBytes(w)

\* one digit, already unsigned, as its little-endian bytes
DigitLE(u, w) == IF w = 1 THEN <<u>> ELSE <<u % 256, u \div 256>>

RECURSIVE LeFrom(_, _, _)
LeFrom(num, w, i) ==
    IF i = 0 THEN <<>>
    ELSE DigitLE(num[i] % DigitBase(w), w) \o LeFrom(num, w, i - 1)

\* n.to_le_bytes(): two's complement, least significant byte first
ToLeBytes(num, w) == LeFrom(num, w, Len(num))

\* the unsigned digit held by the bytes at digit position i (1 = most significant)
DigitAt(b, w, i) ==
    LET k == (NumDigits(w) - i) * DigitBytes(w)
    IN  IF w = 1 THEN b[k + 1] ELSE b[k + 1] + 256 * b[k + 2]

\* mutant of FromLeBytes: the leading digit is never sign-extended
FromLeBytesUnsigned(b, w, signed) ==
    [i \in 1..NumDigits(w) |-> DigitAt(b, w, i)]

\* T::from_le_bytes(buf): the leading digit of a signed type is sign-extended
FromLeBytes(b, w, signed) ==
    [i \in 1..NumDigits(w) |->
        LET u == DigitAt(b, w, i)
        IN  IF signed /\ i = 1 /\ u >= DigitBase(w) \div 2
            THEN u - DigitBase(w) ELSE u]

---------------------------------------------------------------------------
(* Packet::encode *)

RECURSIVE Zeros(_)
Zeros(n) == IF n <= 0 THEN <<>> ELSE <<0>> \o Zeros(n - 1)

Min(a, b) == IF a <= b THEN a ELSE b

\* result[1..].as_mut().write_xx(v): the bytes of v over the start of the slice
\* after the tag; a slice that is too short takes what fits (the error is dropped)
WriteSlice(result, b) ==
    [i \in 1..Len(result) |->
        IF i >= 2 /\ i - 1 <= Len(b) THEN b[i - 1] ELSE result[i]]

encode(p) ==
    CASE p.kind = "Bytes" ->
            (<<Tag("Bytes")>> \o Zeros(SizeOfU8 * Len(p.data))) \o p.data
      [] p.kind = "String" ->
            (<<Tag("String")>> \o Zeros(SizeOfString)) \o p.data
      [] p.kind \in ScalarKinds ->
            WriteSlice(<<Tag(p.kind)>> \o Zeros(SizeOf(p.kind)),
                       ToLeBytes(p.num, SizeOf(p.kind)))
      [] p.kind = "Identified" ->
            WriteSlice(<<Tag("Identified")>> \o Zeros(SizeOfU32),
                       ToLeBytes(p.num, SizeOfU32)) \o p.data
      [] p.kind = "Invalid" -> <<>>

---------------------------------------------------------------------------
(* Packet::decode *)

\* bytes[k..]: panics when k is past the end
SliceFrom(b, k) ==
    IF k > Len(b) THEN [panic |-> TRUE, v |-> <<>>]
    ELSE [panic |-> FALSE, v |-> SubSeq(b, k + 1, Len(b))]

IsCont(b, i, lo, hi) == i <= Len(b) /\ b[i] >= lo /\ b[i] <= hi

\* String::from_utf8's validity check, from byte i on
RECURSIVE Utf8From(_, _)
Utf8From(b, i) ==
    IF i > Len(b) THEN TRUE
    ELSE LET c == b[i] IN
         CASE c <= 127 -> Utf8From(b, i + 1)
           [] c >= 194 /\ c <= 223 ->
                IsCont(b, i + 1, 128, 191) /\ Utf8From(b, i + 2)
           [] c = 224 ->
                IsCont(b, i + 1, 160, 191) /\ IsCont(b, i + 2, 128, 191)
                /\ Utf8From(b, i + 3)
           [] (c >= 225 /\ c <= 236) \/ c = 238 \/ c = 239 ->
                IsCont(b, i + 1, 128, 191) /\ IsCont(b, i + 2, 128, 191)
                /\ Utf8From(b, i + 3)
           [] c = 237 ->
                IsCont(b, i + 1, 128, 159) /\ IsCont(b, i + 2, 128, 191)
                /\ Utf8From(b, i + 3)
           [] c = 240 ->
                IsCont(b, i + 1, 144, 191) /\ IsCont(b, i + 2, 128, 191)
                /\ IsCont(b, i + 3, 128, 191) /\ Utf8From(b, i + 4)
           [] c >= 241 /\ c <= 243 ->
                IsCont(b, i + 1, 128, 191) /\ IsCont(b, i + 2, 128, 191)
                /\ IsCont(b, i + 3, 128, 191) /\ Utf8From(b, i + 4)
           [] c = 244 ->
                IsCont(b, i + 1, 128, 143) /\ IsCont(b, i + 2, 128, 191)
                /\ IsCont(b, i + 3, 128, 191) /\ Utf8From(b, i + 4)
           [] OTHER -> FALSE

from_utf8(b) == Utf8From(b, 1)

\* mutant of ReadLE: a short read is not an error, the missing bytes read as zero
ReadLEPadded(b, w, signed) ==
    [ok |-> TRUE, v |-> FromLeBytes(b \o Zeros(w), w, signed)]

\* Cursor::new(b).read_xx::<LittleEndian>(): read_exact of w bytes, then from_le_bytes
ReadLE(b, w, signed) ==
    IF Len(b) < w THEN [ok |-> FALSE, v |-> <<>>]
    ELSE [ok |-> TRUE, v |-> FromLeBytes(b, w, signed)]

KindOfTag(t) == CHOOSE k \in ScalarKinds : Tag(k) = t

Ok(p) == [st |-> "Ok", pkt |-> p]

PacketDecodeError == [st |-> "Err", pkt |-> Invalid]

Panicked == [st |-> "Panic", pkt |-> Invalid]

\* mutant of UnknownTag: an unrecognised tag is a decode error
UnknownTagIsError == PacketDecodeError

\* the arm _ => Ok(Packet::Invalid)
UnknownTag == Ok(Invalid)

decode(bytes) ==
    IF Len(bytes) = 0 THEN PacketDecodeError
    ELSE LET b == bytes[1]
             rest == SliceFrom(bytes, 1).v
         IN  CASE b = 1 -> Ok(Packet("Bytes", <<>>, rest))
               [] b = 2 ->
                    IF from_utf8(rest) THEN Ok(Packet("String", <<>>, rest))
                    ELSE PacketDecodeError
               [] b >= 3 /\ b <= 12 ->
                    LET k == KindOfTag(b)
                        n == ReadLE(rest, SizeOf(k), k \in SignedKinds)
                    IN  IF n.ok THEN Ok(Packet(k, n.v, <<>>))
                        ELSE PacketDecodeError
               [] b = 13 ->
                    LET id == ReadLE(rest, SizeOfU32, FALSE)
                    IN  IF ~id.ok THEN PacketDecodeError
                        ELSE LET d == SliceFrom(bytes, SizeOfU32)
                             IN  IF d.panic THEN Panicked
                                 ELSE Ok(Packet("Identified", id.v, d.v))
               [] OTHER -> UnknownTag

---------------------------------------------------------------------------
(* The packets the codec is exercised on *)

ByteVals == {0, 7, 255}

\* characters of a String payload, each as its UTF-8 bytes: 'H' and U+00E9
CharVals == {<<72>>, <<195, 169>>}

RECURSIVE SeqsUpTo(_, _)
SeqsUpTo(S, n) ==
    IF n = 0 THEN {<<>>}
    ELSE LET shorter == SeqsUpTo(S, n - 1)
         IN  shorter \cup {<<x>> \o s : x \in S, s \in {t \in shorter : Len(t) = n - 1}}

RECURSIVE TextsUpTo(_)
TextsUpTo(n) ==
    IF n = 0 THEN {<<>>}
    ELSE LET shorter == TextsUpTo(n - 1)
         IN  shorter \cup {c \o s : c \in CharVals, s \in shorter}

\* boundary digits: unsigned and signed, 8 and 16 bits; 32640 and 32752 lead the
\* bit patterns of the f32 and f64 infinities, 65535 those of NaNs
UDigits(w) ==
    IF w = 1 THEN {0, 1, 127, 128, 255}
    ELSE {0, 1, 255, 256, 32640, 32752, 32768, 65535}

SDigits(w) == IF w = 1 THEN {-128, -1, 0, 1, 127} ELSE {-32768, -256, -1, 0, 1, 32767}

\* every value of a scalar type whose digits are boundary digits
Values(w, signed) ==
    LET lead == IF signed THEN SDigits(w) ELSE UDigits(w)
        n == NumDigits(w)
    IN  {v \in [1..n -> UDigits(w) \cup lead] :
            /\ v[1] \in lead
            /\ \A i \in 2..n : v[i] \in UDigits(w)}

DataVals == SeqsUpTo(ByteVals, MaxDataLen)

Packets ==
    {Packet("Bytes", <<>>, d) : d \in DataVals}
    \cup {Packet("String", <<>>, t) : t \in TextsUpTo(MaxStrChars)}
    \cup UNION {{Packet(k, v, <<>>) : v \in Values(SizeOf(k), k \in SignedKinds)} :
                k \in ScalarKinds}
    \cup {Packet("Identified", id, d) : id \in Values(SizeOfU32, FALSE), d \in DataVals}
    \cup {Invalid}

---------------------------------------------------------------------------
(* Codec harness: encode a packet, possibly lose the tail of the buffer,    *)
(* decode what is left                                                      *)

CodecInit ==
    /\ pkt \in Packets
    /\ wire = <<>>
    /\ decoded = PacketDecodeError
    /\ phase = "new"
    /\ cut = FALSE

DoEncode ==
    /\ phase = "new"
    /\ wire' = encode(pkt)
    /\ phase' = "encoded"
    /\ UNCHANGED <<pkt, decoded, cut>>
    /\ UNCHANGED <<connVars, srvVars, bldVars>>

\* the caller hands decode only the first n bytes of the encoding
Truncate(n) ==
    /\ phase = "encoded"
    /\ n < Len(wire)
    /\ wire' = SubSeq(wire, 1, n)
    /\ cut' = TRUE
    /\ phase' = "truncated"
    /\ UNCHANGED <<pkt, decoded>>
    /\ UNCHANGED <<connVars, srvVars, bldVars>>

\* first bytes that are no tag of a variant
BadTags == {0, 14, 128, 255}

\* the caller hands decode a buffer that starts with a byte that is no tag,
\* followed by the bytes of some encoding; like a truncated buffer it is marked
\* as no longer the encoding of pkt
Retag(t) ==
    /\ phase = "encoded"
    /\ Len(wire) > 0
    /\ wire' = <<t>> \o Tail(wire)
    /\ cut' = TRUE
    /\ phase' = "retagged"
    /\ UNCHANGED <<pkt, decoded>>
    /\ UNCHANGED <<connVars, srvVars, bldVars>>

DoDecode ==
    /\ phase \in {"encoded", "truncated", "retagged"}
    /\ decoded' = decode(wire)
    /\ phase' = "decoded"
    /\ UNCHANGED <<pkt, wire, cut>>
    /\ UNCHANGED <<connVars, srvVars, bldVars>>

vars == <<codecVars, connVars, srvVars, bldVars>>

---------------------------------------------------------------------------
(* Client and LogicalClient over one TCP connection.  Each direction is a   *)
(* byte stream: a write appends the encoding, a read takes what is there up *)
(* to the capacity of the receive buffer.  A read on an empty stream blocks *)
(* while both ends are open, returns 0 bytes once an end has shut down, and *)
(* fails once the connection is reset.                                      *)

\* let mut data = [0 as u8; 50]
ClientBufSize == 50

\* let mut data = [0; 64]
ServerBufSize == 64

RECURSIVE Fill(_, _)
Fill(x, n) == IF n <= 0 THEN <<>> ELSE <<x>> \o Fill(x, n - 1)

\* Packet::I32(5), sent by examples/client.rs
PktI32 == Packet("I32", <<0, 5>>, <<>>)

PktU8 == Packet("U8", <<255>>, <<>>)

\* Packet::String("Hello There!"), sent by the handler of examples/server.rs
PktHello == Packet("String", <<>>, <<72, 101, 108, 108, 111, 32, 84, 104, 101, 114, 101, 33>>)

\* a payload as long as the larger receive buffer: no read takes it whole
PktBig == Packet("Bytes", <<>>, Fill(7, ServerBufSize))

ConnPackets == {PktI32, PktU8, PktHello, PktBig}

ReadingErr == [st |-> "Reading", pkt |-> Invalid]

DecodeErr == [st |-> "Decode", pkt |-> Invalid]

\* the receive buffer after stream.read(&mut data): zero-initialised, its first
\* n bytes overwritten by the n bytes taken from the stream
Received(stream, cap) ==
    LET n == Min(Len(stream), cap)
    IN  SubSeq(stream, 1, n) \o Zeros(cap - n)

\* what stream.read leaves unread
Unread(stream, cap) == SubSeq(stream, Min(Len(stream), cap) + 1, Len(stream))

\* the body of read(): Ok(_) ignores the byte count and decodes the whole buffer
ReadOutcome(stream, cap, failed) ==
    IF failed THEN ReadingErr
    ELSE LET d == decode(Received(stream, cap))
         IN  IF d.st = "Ok" THEN Ok(d.pkt) ELSE DecodeErr

\* one read as the history keeps it: the outcome, the bytes received, whether
\* it met the end of a stream the peer had shut down, the unread bytes it
\* found, and how many packets the peer had sent by then
ReadEntry(stream, cap, failed, peerShut, nsent) ==
    [res |-> ReadOutcome(stream, cap, failed),
     n |-> IF failed THEN 0 ELSE Min(Len(stream), cap),
     eof |-> ~failed /\ peerShut /\ Len(stream) = 0,
     avail |-> stream,
     sent |-> nsent]

ConnInit ==
    /\ conn = "new"
    /\ cShut = FALSE
    /\ sShut = FALSE
    /\ c2s = <<>>
    /\ s2c = <<>>
    /\ sentC = <<>>
    /\ sentS = <<>>
    /\ recvC = <<>>
    /\ recvS = <<>>

\* Client::connect: Ok(Self { stream }) or Err(ConnectionError::Client)
Client_connect(ok) ==
    /\ conn = "new"
    /\ conn' = IF ok THEN "open" ELSE "failed"
    /\ UNCHANGED <<cShut, sShut, c2s, s2c, sentC, sentS, recvC, recvS>>
    /\ UNCHANGED <<codecVars, srvVars, bldVars>>

\* the transport fails under the connection (a reset by the peer's host)
ConnReset ==
    /\ conn = "open"
    /\ conn' = "reset"
    /\ c2s' = <<>>
    /\ s2c' = <<>>
    /\ UNCHANGED <<cShut, sShut, sentC, sentS, recvC, recvS>>
    /\ UNCHANGED <<codecVars, srvVars, bldVars>>

\* Client::send on a connection both ends still hold open
Client_send(p) ==
    /\ conn = "open"
    /\ ~cShut
    /\ ~sShut
    /\ Len(sentC) < MaxSends
    /\ c2s' = c2s \o encode(p)
    /\ sentC' = Append(sentC, [pkt |-> p, seen |-> Len(recvC)])
    /\ UNCHANGED <<conn, cShut, sShut, s2c, sentS, recvC, recvS>>
    /\ UNCHANGED <<codecVars, srvVars, bldVars>>

\* LogicalClient::send on a connection both ends still hold open
LogicalClient_send(p) ==
    /\ conn = "open"
    /\ ~cShut
    /\ ~sShut
    /\ Len(sentS) < MaxSends
    /\ s2c' = s2c \o encode(p)
    /\ sentS' = Append(sentS, [pkt |-> p, seen |-> Len(recvS)])
    /\ UNCHANGED <<conn, cShut, sShut, c2s, sentC, recvC, recvS>>
    /\ UNCHANGED <<codecVars, srvVars, bldVars>>

\* Client::read: returns once there are bytes, an end has shut down, or the
\* connection has failed
Client_read ==
    /\ conn \in {"open", "reset"}
    /\ Len(recvC) < MaxReads
    /\ conn = "reset" \/ Len(s2c) > 0 \/ sShut \/ cShut
    /\ recvC' = Append(recvC,
            ReadEntry(s2c, ClientBufSize, conn = "reset", sShut, Len(sentS)))
    /\ s2c' = Unread(s2c, ClientBufSize)
    /\ UNCHANGED <<conn, cShut, sShut, c2s, sentC, sentS, recvS>>
    /\ UNCHANGED <<codecVars, srvVars, bldVars>>

\* LogicalClient::read
LogicalClient_read ==
    /\ conn \in {"open", "reset"}
    /\ Len(recvS) < MaxReads
    /\ conn = "reset" \/ Len(c2s) > 0 \/ cShut \/ sShut
    /\ recvS' = Append(recvS,
            ReadEntry(c2s, ServerBufSize, conn = "reset", cShut, Len(sentC)))
    /\ c2s' = Unread(c2s, ServerBufSize)
    /\ UNCHANGED <<conn, cShut, sShut, s2c, sentC, sentS, recvC>>
    /\ UNCHANGED <<codecVars, srvVars, bldVars>>

\* Client::disconnect: stream.shutdown(Shutdown::Both)
Client_disconnect ==
    /\ conn = "open"
    /\ ~cShut
    /\ cShut' = TRUE
    /\ UNCHANGED <<conn, sShut, c2s, s2c, sentC, sentS, recvC, recvS>>
    /\ UNCHANGED <<codecVars, srvVars, bldVars>>

\* LogicalClient::disconnect: stream.shutdown(Shutdown::Both)
LogicalClient_disconnect ==
    /\ conn = "open"
    /\ ~sShut
    /\ sShut' = TRUE
    /\ UNCHANGED <<conn, cShut, c2s, s2c, sentC, sentS, recvC, recvS>>
    /\ UNCHANGED <<codecVars, srvVars, bldVars>>

---------------------------------------------------------------------------
(* Server::run: bind, then a scoped thread that runs the accept loop.  The  *)
(* client handler is the user's callback: it serves the requests of its     *)
(* connection until it returns or panics.                                   *)

Conns == 1..MaxConns

\* Server::handle_error: to the configured handler, else println! to the console
handle_error(routed, msg) ==
    Append(routed,
           [msg |-> msg,
            sink |-> IF errorHandler # "None" THEN "handler" ELSE "console"])

\* Server::log: to the configured handler, else println! to the console
log(emitted, msg) ==
    Append(emitted,
           [msg |-> msg,
            sink |-> IF logHandler # "None" THEN "handler" ELSE "console"])

\* a Server as ServerBuilder::build() or Server::new leaves it, before run()
ServerInit ==
    /\ errorHandler \in {"None", "Some"}
    /\ logHandler \in {"None", "Some"}
    /\ portFree \in BOOLEAN
    /\ listener = "None"
    /\ runPc = "idle"
    /\ acceptPc = "unspawned"
    /\ backlog = <<>>
    /\ errors = <<>>
    /\ logs = <<>>
    /\ acceptErrs = 0
    /\ connected = {}
    /\ current = 0
    /\ invoked = [c \in Conns |-> 0]
    /\ errsBefore = [c \in Conns |-> 0]
    /\ req = [c \in Conns |-> 0]
    /\ resp = [c \in Conns |-> 0]

\* run() up to the spawn: log, bind (an error is routed, the listener stays
\* None), then crossbeam::thread::scope spawns the thread and waits for it
Run ==
    /\ runPc = "idle"
    /\ logs' = log(logs, "Starting server")
    /\ listener' = IF portFree THEN "Some" ELSE "None"
    /\ errors' = IF portFree THEN errors
                 ELSE handle_error(errors, "failed to bind listener to address")
    /\ acceptPc' = "spawned"
    /\ runPc' = "joining"
    /\ UNCHANGED <<connected, errorHandler, logHandler, portFree, backlog, acceptErrs,
                   current, invoked, errsBefore, req, resp>>
    /\ UNCHANGED <<codecVars, connVars, bldVars>>

\* mutant of AcceptThreadStart: the loop is entered whether or not the bind
\* gave a listener
AcceptThreadStartUnchecked ==
    /\ acceptPc = "spawned"
    /\ logs' = log(logs, "Server started, listening for connections.")
    /\ acceptPc' = "accepting"
    /\ UNCHANGED <<connected, errorHandler, logHandler, portFree, listener, runPc, backlog,
                   errors, acceptErrs, current, invoked, errsBefore, req, resp>>
    /\ UNCHANGED <<codecVars, connVars, bldVars>>

\* the spawned closure: with a listener it logs and enters the loop over
\* listener.incoming(), without one it ends at once
AcceptThreadStart ==
    /\ acceptPc = "spawned"
    /\ IF listener = "Some"
       THEN /\ logs' = log(logs, "Server started, listening for connections.")
            /\ acceptPc' = "accepting"
       ELSE /\ logs' = logs
            /\ acceptPc' = "done"
    /\ UNCHANGED <<connected, errorHandler, logHandler, portFree, listener, runPc, backlog,
                   errors, acceptErrs, current, invoked, errsBefore, req, resp>>
    /\ UNCHANGED <<codecVars, connVars, bldVars>>

\* a client connects to the bound socket: the connection waits to be accepted
ClientConnects(c) ==
    /\ listener = "Some"
    /\ c \notin connected
    /\ backlog' = Append(backlog, [ok |-> TRUE, id |-> c])
    /\ connected' = connected \cup {c}
    /\ UNCHANGED <<errorHandler, logHandler, portFree, listener, runPc, acceptPc,
                   errors, logs, acceptErrs, current, invoked, errsBefore, req, resp>>
    /\ UNCHANGED <<codecVars, connVars, bldVars>>

\* an incoming connection that accept will fail on
IncomingFails ==
    /\ listener = "Some"
    /\ acceptErrs + Cardinality({i \in 1..Len(backlog) : ~backlog[i].ok}) < MaxAcceptErrs
    /\ backlog' = Append(backlog, [ok |-> FALSE, id |-> 0])
    /\ UNCHANGED <<connected, errorHandler, logHandler, portFree, listener, runPc, acceptPc,
                   errors, logs, acceptErrs, current, invoked, errsBefore, req, resp>>
    /\ UNCHANGED <<codecVars, connVars, bldVars>>

\* a connected client sends a request
ClientRequest(c) ==
    /\ c \in connected
    /\ req[c] < MaxReq
    /\ req' = [req EXCEPT ![c] = @ + 1]
    /\ UNCHANGED <<connected, errorHandler, logHandler, portFree, listener, runPc, acceptPc,
                   backlog, errors, logs, acceptErrs, current, invoked, errsBefore,
                   resp>>
    /\ UNCHANGED <<codecVars, connVars, bldVars>>

\* Ok(stream): the LogicalClient is built and the client handler is called
\* with it, on the thread of the accept loop
AcceptOk ==
    /\ acceptPc = "accepting"
    /\ Len(backlog) > 0
    /\ Head(backlog).ok
    /\ backlog' = Tail(backlog)
    /\ invoked' = [invoked EXCEPT ![Head(backlog).id] = @ + 1]
    /\ errsBefore' = [errsBefore EXCEPT ![Head(backlog).id] = acceptErrs]
    /\ current' = Head(backlog).id
    /\ acceptPc' = "in_handler"
    /\ UNCHANGED <<connected, errorHandler, logHandler, portFree, listener, runPc, errors,
                   logs, acceptErrs, req, resp>>
    /\ UNCHANGED <<codecVars, connVars, bldVars>>

\* mutant of AcceptErr: the error is routed and the loop is left
AcceptErrBreaks ==
    /\ acceptPc = "accepting"
    /\ Len(backlog) > 0
    /\ ~Head(backlog).ok
    /\ backlog' = Tail(backlog)
    /\ acceptErrs' = acceptErrs + 1
    /\ errors' = handle_error(errors, "Connection failed")
    /\ acceptPc' = "done"
    /\ UNCHANGED <<connected, errorHandler, logHandler, portFree, listener, runPc, logs,
                   current, invoked, errsBefore, req, resp>>
    /\ UNCHANGED <<codecVars, connVars, bldVars>>

\* Err(e): the error is routed and the loop goes on
AcceptErr ==
    /\ acceptPc = "accepting"
    /\ Len(backlog) > 0
    /\ ~Head(backlog).ok
    /\ backlog' = Tail(backlog)
    /\ acceptErrs' = acceptErrs + 1
    /\ errors' = handle_error(errors, "Connection failed")
    /\ UNCHANGED <<connected, errorHandler, logHandler, portFree, listener, runPc, acceptPc,
                   logs, current, invoked, errsBefore, req, resp>>
    /\ UNCHANGED <<codecVars, connVars, bldVars>>

\* the handler reads a request of its connection and answers it
HandlerServe ==
    /\ acceptPc = "in_handler"
    /\ resp[current] < req[current]
    /\ resp' = [resp EXCEPT ![current] = @ + 1]
    /\ UNCHANGED <<connected, errorHandler, logHandler, portFree, listener, runPc, acceptPc,
                   backlog, errors, logs, acceptErrs, current, invoked, errsBefore,
                   req>>
    /\ UNCHANGED <<codecVars, connVars, bldVars>>

\* the handler returns: the loop asks incoming() for the next connection
HandlerReturn ==
    /\ acceptPc = "in_handler"
    /\ acceptPc' = "accepting"
    /\ current' = 0
    /\ UNCHANGED <<connected, errorHandler, logHandler, portFree, listener, runPc, backlog,
                   errors, logs, acceptErrs, invoked, errsBefore, req, resp>>
    /\ UNCHANGED <<codecVars, connVars, bldVars>>

\* the handler panics (an unwrap in the callback): the thread of the loop dies
HandlerPanic ==
    /\ acceptPc = "in_handler"
    /\ acceptPc' = "panicked"
    /\ current' = 0
    /\ UNCHANGED <<connected, errorHandler, logHandler, portFree, listener, runPc, backlog,
                   errors, logs, acceptErrs, invoked, errsBefore, req, resp>>
    /\ UNCHANGED <<codecVars, connVars, bldVars>>

\* mutant of ThreadEnded: the thread is detached, run() does not wait for it
ThreadLaunched == acceptPc # "unspawned"

\* the scope has joined every thread spawned in it
ThreadEnded == acceptPc \in {"done", "panicked"}

\* crossbeam::thread::scope returns once the spawned thread has ended, with
\* Err when it panicked; run() routes that error and returns
ScopeJoin ==
    /\ runPc = "joining"
    /\ ThreadEnded
    /\ errors' = IF acceptPc = "panicked"
                 THEN handle_error(errors, "Failed to spawn listener thread")
                 ELSE errors
    /\ runPc' = "returned"
    /\ UNCHANGED <<connected, errorHandler, logHandler, portFree, listener, acceptPc, backlog,
                   logs, acceptErrs, current, invoked, errsBefore, req, resp>>
    /\ UNCHANGED <<codecVars, connVars, bldVars>>

---------------------------------------------------------------------------
(* ServerBuilder: new(), the five setters, build().  A handler is known by  *)
(* its name; "None" is the absent Option, "default" the closure that new()  *)
(* installs as client handler.                                              *)

\* port: 4444 in ServerBuilder::new
DefaultPort == 4444

Addresses == {"192.168.1.84", "127.0.0.1"}

Ports == {8580, 4353}

ErrorHandlers == {"on_error_a", "on_error_b"}

ClientHandlers == {"on_client_a", "on_client_b"}

LogHandlers == {"on_log_a", "on_log_b"}

\* ServerBuilder::new
ServerBuilder_new ==
    [address |-> "0.0.0.0",
     port |-> DefaultPort,
     error_handler |-> "None",
     client_handler |-> "default",
     log_handler |-> "None"]

\* no builder in use: a fresh one, and the fields Server::new gives a server
BuilderIdle ==
    /\ builder = ServerBuilder_new
    /\ calls = <<>>
    /\ built = FALSE
    /\ address = "0.0.0.0"
    /\ port = DefaultPort
    /\ clientHandler = "default"

\* the builder is live and another call fits the log of calls
CanCall == ~built /\ Len(calls) < MaxCalls

\* ServerBuilder::address
ServerBuilder_address(a) ==
    /\ CanCall
    /\ builder' = [address |-> a,
                   port |-> builder.port,
                   error_handler |-> builder.error_handler,
                   client_handler |-> builder.client_handler,
                   log_handler |-> builder.log_handler]
    /\ calls' = Append(calls, [op |-> "address", arg |-> a])
    /\ UNCHANGED <<built, address, port, clientHandler>>
    /\ UNCHANGED <<codecVars, connVars, srvVars>>

\* mutant of ServerBuilder_port: the optional handlers are not carried over
ServerBuilder_portDropsHandlers(p) ==
    /\ CanCall
    /\ builder' = [address |-> builder.address,
                   port |-> p,
                   error_handler |-> "None",
                   client_handler |-> builder.client_handler,
                   log_handler |-> "None"]
    /\ calls' = Append(calls, [op |-> "port", arg |-> p])
    /\ UNCHANGED <<built, address, port, clientHandler>>
    /\ UNCHANGED <<codecVars, connVars, srvVars>>

\* ServerBuilder::port
ServerBuilder_port(p) ==
    /\ CanCall
    /\ builder' = [address |-> builder.address,
                   port |-> p,
                   error_handler |-> builder.error_handler,
                   client_handler |-> builder.client_handler,
                   log_handler |-> builder.log_handler]
    /\ calls' = Append(calls, [op |-> "port", arg |-> p])
    /\ UNCHANGED <<built, address, port, clientHandler>>
    /\ UNCHANGED <<codecVars, connVars, srvVars>>

\* ServerBuilder::error_handler
ServerBuilder_error_handler(h) ==
    /\ CanCall
    /\ builder' = [address |-> builder.address,
                   port |-> builder.port,
                   error_handler |-> h,
                   client_handler |-> builder.client_handler,
                   log_handler |-> builder.log_handler]
    /\ calls' = Append(calls, [op |-> "error_handler", arg |-> h])
    /\ UNCHANGED <<built, address, port, clientHandler>>
    /\ UNCHANGED <<codecVars, connVars, srvVars>>

\* ServerBuilder::client_handler
ServerBuilder_client_handler(h) ==
    /\ CanCall
    /\ builder' = [address |-> builder.address,
                   port |-> builder.port,
                   error_handler |-> builder.error_handler,
                   client_handler |-> h,
                   log_handler |-> builder.log_handler]
    /\ calls' = Append(calls, [op |-> "client_handler", arg |-> h])
    /\ UNCHANGED <<built, address, port, clientHandler>>
    /\ UNCHANGED <<codecVars, connVars, srvVars>>

\* ServerBuilder::log_handler
ServerBuilder_log_handler(h) ==
    /\ CanCall
    /\ builder' = [address |-> builder.address,
                   port |-> builder.port,
                   error_handler |-> builder.error_handler,
                   client_handler |-> builder.client_handler,
                   log_handler |-> h]
    /\ calls' = Append(calls, [op |-> "log_handler", arg |-> h])
    /\ UNCHANGED <<built, address, port, clientHandler>>
    /\ UNCHANGED <<codecVars, connVars, srvVars>>

\* ServerBuilder::build: the Server takes the builder's fields, listener: None
ServerBuilder_build ==
    /\ ~built
    /\ built' = TRUE
    /\ address' = builder.address
    /\ port' = builder.port
    /\ listener' = "None"
    /\ errorHandler' = builder.error_handler
    /\ clientHandler' = builder.client_handler
    /\ logHandler' = builder.log_handler
    /\ UNCHANGED <<builder, calls>>
    /\ UNCHANGED <<portFree, runPc, acceptPc, backlog, errors, logs, acceptErrs,
                   connected, current, invoked, errsBefore, req, resp>>
    /\ UNCHANGED <<codecVars, connVars>>

---------------------------------------------------------------------------
(* Specifications *)

CodecIdle ==
    /\ pkt = Invalid
    /\ wire = <<>>
    /\ decoded = PacketDecodeError
    /\ phase = "new"
    /\ cut = FALSE

ServerIdle ==
    /\ errorHandler = "None"
    /\ logHandler = "None"
    /\ portFree = TRUE
    /\ listener = "None"
    /\ runPc = "idle"
    /\ acceptPc = "unspawned"
    /\ backlog = <<>>
    /\ errors = <<>>
    /\ logs = <<>>
    /\ acceptErrs = 0
    /\ connected = {}
    /\ current = 0
    /\ invoked = [c \in Conns |-> 0]
    /\ errsBefore = [c \in Conns |-> 0]
    /\ req = [c \in Conns |-> 0]
    /\ resp = [c \in Conns |-> 0]

\* the codec on its own
Init == CodecInit /\ ConnInit /\ ServerIdle /\ BuilderIdle

Next ==
    \/ DoEncode
    \/ \E n \in 0..Len(wire) : Truncate(n)
    \/ \E t \in BadTags : Retag(t)
    \/ DoDecode

Spec == Init /\ [][Next]_vars

\* one connection between a Client and a LogicalClient
InitConn == CodecIdle /\ ConnInit /\ ServerIdle /\ BuilderIdle

NextConn ==
    \/ \E ok \in BOOLEAN : Client_connect(ok)
    \/ ConnReset
    \/ \E p \in ConnPackets : Client_send(p)
    \/ \E p \in ConnPackets : LogicalClient_send(p)
    \/ Client_read
    \/ LogicalClient_read
    \/ Client_disconnect
    \/ LogicalClient_disconnect

SpecConn == InitConn /\ [][NextConn]_vars

\* the server and its clients; the threads of the server are scheduled fairly,
\* clients and the user's callback do as they please
InitServer == CodecIdle /\ ConnInit /\ ServerInit /\ BuilderIdle

NextServer ==
    \/ Run
    \/ AcceptThreadStart
    \/ \E c \in Conns : ClientConnects(c)
    \/ IncomingFails
    \/ \E c \in Conns : ClientRequest(c)
    \/ AcceptOk
    \/ AcceptErr
    \/ HandlerServe
    \/ HandlerReturn
    \/ HandlerPanic
    \/ ScopeJoin

SpecServer ==
    /\ InitServer
    /\ [][NextServer]_vars
    /\ WF_vars(AcceptThreadStart)
    /\ WF_vars(AcceptOk)
    /\ WF_vars(AcceptErr)
    /\ WF_vars(HandlerServe)
    /\ WF_vars(ScopeJoin)

\* a ServerBuilder from new() to build()
InitBuilder == CodecIdle /\ ConnInit /\ ServerIdle /\ BuilderIdle

NextBuilder ==
    \/ \E a \in Addresses : ServerBuilder_address(a)
    \/ \E p \in Ports : ServerBuilder_port(p)
    \/ \E h \in ErrorHandlers : ServerBuilder_error_handler(h)
    \/ \E h \in ClientHandlers : ServerBuilder_client_handler(h)
    \/ \E h \in LogHandlers : ServerBuilder_log_handler(h)
    \/ ServerBuilder_build

SpecBuilder == InitBuilder /\ [][NextBuilder]_vars

---------------------------------------------------------------------------
(* Claims about the codec *)

\* C1: every Bytes, String or Identified packet, the empty payload included,
\* decodes from its own encoding to an equal packet.
C1_VarLenRoundTrip ==
    (phase = "decoded" /\ ~cut /\ pkt.kind \in VarKinds) => decoded = Ok(pkt)

\* C2: every fixed-width scalar packet (floats by bit pattern) decodes from its
\* own encoding to the same variant with the same value.
C2_ScalarRoundTrip ==
    (phase = "decoded" /\ ~cut /\ pkt.kind \in ScalarKinds) => decoded = Ok(pkt)

\* the smallest i64, -2^63, has gone through encode and decode
C2_Witness ==
    /\ phase = "decoded"
    /\ ~cut
    /\ pkt = Packet("I64", <<-32768, 0, 0, 0>>, <<>>)
    /\ decoded.st = "Ok"

\* byte j (from 0) of the little-endian two's complement form of a value
LeByte(num, w, j) ==
    LET d == num[NumDigits(w) - (j \div DigitBytes(w))] % DigitBase(w)
    IN  IF j % DigitBytes(w) = 0 THEN d % 256 ELSE d \div 256

\* the payload bytes the wire format gives a packet: nothing but the value
PayloadBytes(p) ==
    CASE p.kind \in ScalarKinds ->
            [j \in 1..SizeOf(p.kind) |-> LeByte(p.num, SizeOf(p.kind), j - 1)]
      [] p.kind = "Identified" ->
            [j \in 1..SizeOfU32 |-> LeByte(p.num, SizeOfU32, j - 1)] \o p.data
      [] OTHER -> p.data

\* C3: the encoding of every packet but Invalid is its tag byte followed by
\* exactly its payload bytes (little-endian value, raw data, or id then raw
\* data), with no padding.
C3_TagThenPayload ==
    (phase = "encoded" /\ pkt.kind # "Invalid")
        => wire = <<Tag(pkt.kind)>> \o PayloadBytes(pkt)

\* an input too short for its tag: empty, a numeric tag with fewer bytes than
\* the width, or the Identified tag with fewer than four id bytes
TooShort(b) ==
    \/ Len(b) = 0
    \/ /\ b[1] >= 3
       /\ b[1] <= 12
       /\ Len(b) - 1 < SizeOf(KindOfTag(b[1]))
    \/ /\ b[1] = 13
       /\ Len(b) - 1 < 4

\* C9: decode of a too short input returns Err(PacketDecodeError); it neither
\* succeeds nor panics.
C9_ShortInputIsErr ==
    (phase = "decoded" /\ TooShort(wire)) => decoded = PacketDecodeError

\* an Identified packet cut after two of its four id bytes was decoded
C9_Witness ==
    /\ phase = "decoded"
    /\ cut
    /\ Len(wire) = 3
    /\ wire[1] = 13
    /\ decoded.st = "Err"

---------------------------------------------------------------------------
(* Claims about a connection *)

\* C4: a read that received no bytes because the peer had shut its stream
\* down returns Err(ReadingError::Reading), on either side.
C4_PeerCloseIsReadingErr ==
    /\ \A i \in 1..Len(recvC) : recvC[i].eof => recvC[i].res = ReadingErr
    /\ \A i \in 1..Len(recvS) : recvS[i].eof => recvS[i].res = ReadingErr

\* C5: when the handler has read the client's packet and sent p in reply, the
\* stream holds exactly the encoding of p and it fits the client's buffer,
\* the client's read returns a packet equal to p.
C5_ReplyIsExact ==
    \A i \in 1..Len(recvC) :
        LET e == recvC[i] IN
        (/\ e.sent >= 1
         /\ sentS[e.sent].seen >= 1
         /\ recvS[sentS[e.sent].seen].res.st = "Ok"
         /\ e.avail = encode(sentS[e.sent].pkt)
         /\ Len(e.avail) <= ClientBufSize)
            => e.res = Ok(sentS[e.sent].pkt)

IsOkRead(e) == e.res.st = "Ok"

\* the k-th successful read of a history is the k-th packet the peer sent
InOrder(sent, recv) ==
    LET got == SelectSeq(recv, IsOkRead)
    IN  \A k \in 1..Len(got) : k <= Len(sent) /\ got[k].res.pkt = sent[k].pkt

\* C8: in each direction of a connection the k-th successful read returns the
\* packet of the k-th send, whatever the interleaving of sends and reads and
\* whatever the length of the encodings.
C8_ReadsFollowSends == InOrder(sentC, recvS) /\ InOrder(sentS, recvC)

---------------------------------------------------------------------------
(* Claims about the server *)

\* C6: no connected client waits for the handler of another connection: the
\* thread that accepts connections is never held by a running handler while
\* a connection waits to be accepted.
C6_NoClientWaitsForAnother ==
    acceptPc = "in_handler" => \A i \in 1..Len(backlog) : ~backlog[i].ok

\* C7 as stated: once the listener is bound, run() eventually returns to its
\* caller.
C7_RunReturns == (listener = "Some") ~> (runPc = "returned")

\* C7 as amended: run() waits for the thread of the accept loop; while that
\* thread is alive run() has not returned, and after a successful bind run()
\* returns only when the thread has panicked.
C7_RunWaitsForAcceptLoop ==
    /\ acceptPc \in {"spawned", "accepting", "in_handler"} => runPc = "joining"
    /\ (runPc = "returned" /\ listener = "Some") => acceptPc = "panicked"

\* the loop has served a connection and accepts again, run() still waiting
C7_Witness ==
    /\ listener = "Some"
    /\ acceptPc = "accepting"
    /\ runPc = "joining"
    /\ \E c \in Conns : invoked[c] = 1 /\ resp[c] = 1

IsAcceptError(e) == e.msg = "Connection failed"

\* C10: each failed accept routes exactly one ServerError to the error handler
\* (the configured one, else the console), the loop goes on after it, and every
\* connection the listener has accepted had the client handler invoked once.
C10_AcceptFailuresRouted ==
    LET routed == SelectSeq(errors, IsAcceptError) IN
    /\ Len(routed) = acceptErrs
    /\ \A i \in 1..Len(routed) :
          routed[i].sink = IF errorHandler = "Some" THEN "handler" ELSE "console"
    /\ acceptErrs > 0 => acceptPc # "done"
    /\ \A c \in connected :
          (\A i \in 1..Len(backlog) : backlog[i].id # c) => invoked[c] = 1

\* a connection was accepted, and its handler invoked, after two failed accepts
C10_Witness ==
    \E c \in Conns :
        /\ invoked[c] = 1
        /\ errsBefore[c] > 1
        /\ Len(SelectSeq(errors, IsAcceptError)) > 1

IsStartedLog(e) == e.msg = "Server started, listening for connections."

\* C11: when the bind fails, run() routes one ServerError to the error handler
\* (the configured one, else the console) and never listens: the listener stays
\* None, the 'Server started, listening for connections.' event is not logged,
\* no client handler is invoked, and run() is not held up: until it has
\* returned, the thread it spawned can end or the scope can be left.
C11_BindFailureDoesNotListen ==
    (runPc # "idle" /\ ~portFree) =>
        /\ listener = "None"
        /\ errors =
              <<[msg |-> "failed to bind listener to address",
                 sink |-> IF errorHandler = "Some" THEN "handler" ELSE "console"]>>
        /\ SelectSeq(logs, IsStartedLog) = <<>>
        /\ acceptPc \notin {"accepting", "in_handler"}
        /\ \A c \in Conns : invoked[c] = 0
        /\ runPc = "returned" \/ ENABLED AcceptThreadStart \/ ENABLED ScopeJoin

\* run() has returned after a failed bind, the error routed
C11_Witness ==
    /\ ~portFree
    /\ runPc = "returned"
    /\ acceptPc = "done"
    /\ Len(errors) = 1

\* C12: decode of a non-empty buffer whose first byte is none of the tags
\* 1..13 returns Ok(Packet::Invalid), whatever bytes follow.
C12_UnknownTagIsInvalid ==
    (phase = "decoded" /\ Len(wire) > 0 /\ wire[1] \notin 1..13)
        => decoded = Ok(Invalid)

\* a buffer of tag 255 followed by the eight bytes of a u64 was decoded
C12_Witness ==
    /\ phase = "decoded"
    /\ Len(wire) = 9
    /\ wire[1] = 255
    /\ pkt.kind = "U64"
    /\ decoded.st = "Ok"

---------------------------------------------------------------------------
(* Claims about the builder *)

\* the argument of the last call of a setter, or the default when it was
\* never called
LastArg(op, default) ==
    LET at == {i \in 1..Len(calls) : calls[i].op = op}
    IN  IF at = {} THEN default
        ELSE calls[CHOOSE i \in at : \A j \in at : j <= i].arg

\* C13: after any sequence of setter calls each field of the builder is what
\* its own setter last set, or its default ("0.0.0.0", 4444, no error handler,
\* the default client handler, no log handler); build() gives the Server
\* exactly these fields and no listening socket.
C13_SettersKeepOtherFields ==
    /\ builder = [address |-> LastArg("address", "0.0.0.0"),
                  port |-> LastArg("port", 4444),
                  error_handler |-> LastArg("error_handler", "None"),
                  client_handler |-> LastArg("client_handler", "default"),
                  log_handler |-> LastArg("log_handler", "None")]
    /\ built =>
          /\ address = LastArg("address", "0.0.0.0")
          /\ port = LastArg("port", 4444)
          /\ errorHandler = LastArg("error_handler", "None")
          /\ clientHandler = LastArg("client_handler", "default")
          /\ logHandler = LastArg("log_handler", "None")
          /\ listener = "None"

\* a server built after an error handler, a log handler and then a port were set
C13_Witness ==
    /\ built
    /\ Len(calls) = 3
    /\ calls[1].op = "error_handler"
    /\ calls[2].op = "log_handler"
    /\ calls[3].op = "port"
    /\ errorHandler = "on_error_b"
    /\ port = 8580

===========================================================================
